---- MODULE Spec2Model ----
(***************************************************************************)
(* The generative core of the music remixer: MarkovChain (order-k sequence *)
(* model), LSystem (string rewriting mapped onto note segments) and        *)
(* CellularAutomata (elementary 1-D automaton with derived encodings);     *)
(* and two collaborators with asynchronous steps: SheetMusicAnalyzer (the  *)
(* page renders of the score viewer) and AudioAnalyzer (file loads and the *)
(* memoized analysis).                                                     *)
(*                                                                         *)
(* JavaScript values are modelled as follows.  Strings are sequences of    *)
(* one-character strings.  Arrays are sequences (index i of the array is   *)
(* element i+1 of the sequence).  Integer-valued numbers are integers; the *)
(* non-finite numbers NaN, Infinity and -Infinity are the three integers   *)
(* NaN, PosInfinity, NegInfinity, which lie outside every range the model  *)
(* computes with.  Fractional numbers (durations) are records              *)
(* [num, den] standing for num/den, den = 0 being a division by zero.      *)
(***************************************************************************)
EXTENDS Integers, Sequences, FiniteSets, Bags, TLC

VARIABLES
    \* MarkovChain instance
    order, transitionTable, startingStates,
    trained,            \* the training sequences accepted so far (history variable)
    mkPc,               \* "idle" | "walk" | "done"
    mkCall, mkRet,      \* the call in progress or just completed, and its result
    \* LSystem instance
    axiom, rules, result,
    priorResult,        \* the derivation stored before the last call (history variable)
    lsCall, lsRet,      \* the last LSystem call and what it returned
    \* CellularAutomata instance
    rule, size, ruleTable, currentState, history,
    caPc,               \* "idle" | "tileSeq" | "tilePitch" | "done"
    caCall, caRet,      \* the call in progress or just completed, and its result
    fullRhythm,         \* the local fullRhythm / fullPattern of the tiling loops
    \* SheetMusicAnalyzer instance
    pdfDoc,             \* FALSE for null, TRUE for the loaded document
    pageNum, pageRendering,
    pageNumPending,     \* 0 for null
    scale,
    renders,            \* the page renders in flight: how many per page and phase
    canvas,             \* the page painted on the shared canvas, 0 for none
    pdfViewer,          \* what the viewer element holds: "empty" | "canvas" | "error"
    \* AudioAnalyzer instance
    audioContext,       \* FALSE for null
    audioBuffer,        \* the file the decoded buffer comes from, 0 for null
    peakData, beatData, frequencyData,   \* the file each was computed from, 0 for null
    loading,            \* the files whose load is in flight
    analysis            \* what the last analyzeAudio call returned

markovVars == <<order, transitionTable, startingStates, trained, mkPc, mkCall, mkRet>>
lsVars     == <<axiom, rules, result, priorResult, lsCall, lsRet>>
caVars     == <<rule, size, ruleTable, currentState, history, caPc, caCall, caRet, fullRhythm>>
sheetVars  == <<pdfDoc, pageNum, pageRendering, pageNumPending, scale, renders, canvas,
                pdfViewer>>
audioVars  == <<audioContext, audioBuffer, peakData, beatData, frequencyData, loading, analysis>>
vars       == <<markovVars, lsVars, caVars, sheetVars, audioVars>>

----------------------------------------------------------------------------
(* Bounds of the model *)

MaxHistory == 5     \* rows kept in History before evolve is no longer called
MaxSteps   == 2     \* largest argument of evolveMultiple
MaxNotes   == 3     \* longest notes list handed to the automaton
MaxTrained == 5     \* symbols accepted by train over the life of the model
MaxGenLen  == 5     \* largest length asked of generate
MaxIterations == 2  \* largest argument of LSystem.generate
MaxMusicLen   == 4  \* longest sequence handed to applyToMusic
MaxThemes     == 2  \* most themes handed to generateWithThemes
MaxRetrained  == 3  \* symbols accepted by train in a model that is also edited
MaxRuleTokens == 6  \* most pieces a rule string is written with
MaxPages == 3  \* pages of the loaded score
MaxRenders == 3  \* most page renders in flight at once
MaxFiles == 3  \* audio files offered to the analyzer

(* JavaScript's non-finite numbers *)
NaN         == -1000000
PosInfinity == 1000000
NegInfinity == -1000001
(* JavaScript's undefined, where it can take the place of a number *)
Undefined   == -1000002

Min(a, b) == IF a <= b THEN a ELSE b
Max(a, b) == IF a >= b THEN a ELSE b

RECURSIVE Pow2(_)
Pow2(n) == IF n = 0 THEN 1 ELSE 2 * Pow2(n - 1)

RECURSIVE SumSeq(_)
SumSeq(s) == IF s = <<>> THEN 0 ELSE Head(s) + SumSeq(Tail(s))

RECURSIVE Flatten(_)
Flatten(ss) == IF ss = <<>> THEN <<>> ELSE Head(ss) \o Flatten(Tail(ss))

SeqsUpTo(S, n) == UNION {[1..k -> S] : k \in 0..n}

\* how many times x occurs in the array arr
CountIn(arr, x) == Cardinality({i \in DOMAIN arr : arr[i] = x})

\* the elements of the set S of numbers in ascending order
RECURSIVE SortAscending(_)
SortAscending(S) ==
    IF S = {} THEN <<>>
    ELSE LET least == CHOOSE x \in S : \A y \in S : x <= y
         IN  <<least>> \o SortAscending(S \ {least})

\* a % b of JavaScript: the sign of the result is that of the dividend
JsRem(a, b) == IF a >= 0 THEN a % b ELSE 0 - ((0 - a) % b)

----------------------------------------------------------------------------
(* MarkovChain *)

Orders   == {1, 2}
Symbols  == {60, 62}
\* the training sequence of the end-to-end scenario
Scenario == <<60, 62, 64, 62, 60>>

Range(s) == {s[i] : i \in DOMAIN s}

DecimalDigits == <<"0", "1", "2", "3", "4", "5", "6", "7", "8", "9">>

\* the decimal numeral JSON.stringify writes for a non-negative integer
RECURSIVE DecimalString(_)
DecimalString(n) == IF n < 10 THEN <<DecimalDigits[n + 1]>>
                    ELSE DecimalString(n \div 10) \o <<DecimalDigits[(n % 10) + 1]>>

\* JSON.stringify of an array element: undefined is written as null
JsonElement(x) == IF x = Undefined THEN <<"n", "u", "l", "l">> ELSE DecimalString(x)

RECURSIVE JoinComma(_)
JoinComma(arr) == IF arr = <<>> THEN <<>>
                  ELSE IF Len(arr) = 1 THEN JsonElement(arr[1])
                  ELSE JsonElement(arr[1]) \o <<",">> \o JoinComma(Tail(arr))

\* JSON.stringify of an array of integers: "[60,62]"
JsonStringify(arr) == <<"[">> \o JoinComma(arr) \o <<"]">>

\* sequence.slice(from, to) with 0-based, end-exclusive indices inside the array
Slice(arr, from, to) == SubSeq(arr, from + 1, to)

EmptyTable == [state \in {} |-> <<>>]

\* faulty variant: the successor list of a state is replaced, not extended
TrainStepOverwrite(table, sequence, ord, i) ==
    LET state     == JsonStringify(Slice(sequence, i, i + ord))
        nextValue == sequence[i + ord + 1]
    IN  [k \in DOMAIN table \cup {state} |->
           IF k = state THEN <<nextValue>> ELSE table[k]]

\* the body of the training loop for index i: has / set / get / push
TrainStep(table, sequence, ord, i) ==
    LET state     == JsonStringify(Slice(sequence, i, i + ord))
        nextValue == sequence[i + ord + 1]
        present   == IF state \in DOMAIN table THEN table
                     ELSE [k \in DOMAIN table \cup {state} |->
                             IF k = state THEN <<>> ELSE table[k]]
    IN  [present EXCEPT ![state] = Append(@, nextValue)]

\* for (let i = 0; i <= sequence.length - order - 1; i++)
RECURSIVE TrainLoop(_, _, _, _)
TrainLoop(table, sequence, ord, i) ==
    IF i > Len(sequence) - ord - 1 THEN table
    ELSE TrainLoop(TrainStep(table, sequence, ord, i), sequence, ord, i + 1)

\* faulty variant: the next value is drawn from the successors of every state
PossibleNextValuesAnyState(table, pool, sequence, ord) ==
    UNION {Range(table[state]) : state \in DOMAIN table}

\* faulty variant: no recovery from the starting states
PossibleNextValuesNoRecovery(table, pool, sequence, ord) ==
    LET state == JsonStringify(Slice(sequence, Len(sequence) - ord, Len(sequence)))
    IN  IF state \in DOMAIN table
        THEN IF table[state] = <<>> THEN {Undefined} ELSE Range(table[state])
        ELSE {}

\* the symbols one iteration of the generation loop can append: a successor
\* of the current state (undefined, when the state is a key with an empty
\* list: index 0 of an empty array), else the first symbol of a starting
\* state, else none (the loop breaks)
PossibleNextValues(table, pool, sequence, ord) ==
    LET state == JsonStringify(Slice(sequence, Len(sequence) - ord, Len(sequence)))
    IN  IF state \in DOMAIN table
        THEN IF table[state] = <<>> THEN {Undefined} ELSE Range(table[state])
        ELSE {pool[k][1] : k \in DOMAIN pool}

\* every sequence the while loop of generate can end with, from `sequence`
RECURSIVE Walks(_, _, _, _, _)
Walks(table, pool, sequence, ord, length) ==
    IF Len(sequence) >= length THEN {sequence}
    ELSE LET nexts == PossibleNextValues(table, pool, sequence, ord)
         IN  IF nexts = {} THEN {sequence}
             ELSE UNION {Walks(table, pool, Append(sequence, v), ord, length) :
                            v \in nexts}

\* faulty variant: a table is never taken to be empty
TableNeverEmpty(table) == FALSE

\* this.transitionTable.size === 0
TableIsEmpty(table) == DOMAIN table = {}

\* faulty variant: the startState argument is ignored
SeedsFromPool(pool, ord, startState) == {pool[k] : k \in DOMAIN pool}

\* the seeds generate can start from; none when it returns [] at once
Seeds(pool, ord, startState) ==
    IF startState.given /\ Len(startState.state) = ord THEN {startState.state}
    ELSE {pool[k] : k \in DOMAIN pool}

\* every value generate(length, startState) can return
GenerateResults(table, pool, ord, length, startState) ==
    IF TableIsEmpty(table) THEN {<<>>}
    ELSE IF Seeds(pool, ord, startState) = {} THEN {<<>>}
    ELSE UNION {Walks(table, pool, seed, ord, length) :
                   seed \in Seeds(pool, ord, startState)}

MkNoCall == [op |-> "none", sequence |-> <<>>, length |-> 0,
             startState |-> [given |-> FALSE, state |-> <<>>],
             newProbabilities |-> <<>>,
             themes |-> [given |-> FALSE, list |-> <<>>]]
\* value: which kind of value the call returned ("this", "array", "null",
\* "object", "undefined"); sequence: the returned array, and the local
\* `sequence` of generate while its loop runs; baseSequence: the base
\* generation of generateWithThemes before any overwriting; states, matrix:
\* the two fields of the object getProbabilityMatrix returns, the matrix as
\* rows and columns in the order of `states`
MkNoRet  == [value |-> "undefined", sequence |-> <<>>, baseSequence |-> <<>>,
             states |-> <<>>, matrix |-> <<>>]

\* the startState argument: absent (null), or an array, of the length the
\* model's order asks for or of another (the empty array)
StartStates == {[given |-> FALSE, state |-> <<>>]}
               \cup {[given |-> TRUE, state |-> c] :
                         c \in {<<>>} \cup [1..order -> Symbols]}

TrainedTotal == SumSeq([k \in DOMAIN trained |-> Len(trained[k])])

InitMarkov ==
    /\ order \in Orders
    /\ transitionTable = EmptyTable
    /\ startingStates = <<>>
    /\ trained = <<>>
    /\ mkPc = "idle"
    /\ mkCall = MkNoCall
    /\ mkRet = MkNoRet

MarkovFrame == UNCHANGED <<order, lsVars, caVars, sheetVars, audioVars>>

\* faulty variant: a sequence of exactly `order` symbols is accepted
TooShortStrict(sequence, ord) == Len(sequence) < ord

\* if (sequence.length <= this.order)
TooShort(sequence, ord) == Len(sequence) <= ord

train ==
    /\ mkPc = "idle"
    /\ \E sequence \in SeqsUpTo(Symbols, MaxTrained) \cup {Scenario} :
          /\ mkCall' = [MkNoCall EXCEPT !.op = "train", !.sequence = sequence]
          /\ IF TooShort(sequence, order)
             THEN UNCHANGED <<transitionTable, startingStates, trained>>
             ELSE /\ TrainedTotal + Len(sequence) <= MaxTrained
                  /\ startingStates' = Append(startingStates, Slice(sequence, 0, order))
                  /\ transitionTable' = TrainLoop(transitionTable, sequence, order, 0)
                  /\ trained' = Append(trained, sequence)
    /\ mkRet' = [MkNoRet EXCEPT !.value = "this"]
    /\ mkPc' = "done"
    /\ MarkovFrame

\* generate up to the while loop: the two early returns, else the seed
generate ==
    /\ mkPc = "idle"
    /\ \E length \in 0..MaxGenLen, startState \in StartStates :
          /\ mkCall' = [MkNoCall EXCEPT !.op = "generate", !.length = length,
                                        !.startState = startState]
          /\ IF TableIsEmpty(transitionTable)
                \/ Seeds(startingStates, order, startState) = {}
             THEN /\ mkRet' = [MkNoRet EXCEPT !.value = "array"]
                  /\ mkPc' = "done"
             ELSE /\ \E seed \in Seeds(startingStates, order, startState) :
                        mkRet' = [MkNoRet EXCEPT !.value = "array", !.sequence = seed]
                  /\ mkPc' = "walk"
    /\ MarkovFrame
    /\ UNCHANGED <<transitionTable, startingStates, trained>>

\* one test of `while (sequence.length < length)`: one symbol is pushed, or
\* the loop is left (by its test or by break) and the sequence is returned
generateLoop ==
    /\ mkPc = "walk"
    /\ LET nexts == PossibleNextValues(transitionTable, startingStates,
                                       mkRet.sequence, order)
       IN  IF Len(mkRet.sequence) < mkCall.length /\ nexts # {}
           THEN /\ \E nextValue \in nexts :
                      mkRet' = [mkRet EXCEPT !.sequence = Append(@, nextValue)]
                /\ UNCHANGED mkPc
           ELSE /\ mkPc' = "done"
                /\ UNCHANGED mkRet
    /\ MarkovFrame
    /\ UNCHANGED <<transitionTable, startingStates, trained, mkCall>>

\* the caller takes the result; the instance is ready for the next call
mkReturn ==
    /\ mkPc = "done"
    /\ mkPc' = "idle"
    /\ mkCall' = MkNoCall
    /\ mkRet' = MkNoRet
    /\ MarkovFrame
    /\ UNCHANGED <<transitionTable, startingStates, trained>>

\* the value of a decimal digit character
DigitValue(ch) == CHOOSE d \in 0..9 : DecimalDigits[d + 1] = ch

\* parseInt of a string of decimal digits; NaN for the empty string
RECURSIVE ParseInt(_)
ParseInt(str) ==
    IF str = <<>> THEN NaN
    ELSE IF Len(str) = 1 THEN DigitValue(str[1])
    ELSE 10 * ParseInt(SubSeq(str, 1, Len(str) - 1)) + DigitValue(str[Len(str)])

\* JSON.parse(state)[0]: the first element of the array the key was written from
JsonParseFirst(state) ==
    LET stop == CHOOSE k \in 2..Len(state) :
                   /\ state[k] \in {",", "]"}
                   /\ \A j \in 2..(k - 1) : state[j] \notin {",", "]"}
    IN  ParseInt(SubSeq(state, 2, stop - 1))

\* Object.entries of every object with keys among the numbers `keys` and
\* values among `values`: integer keys come in ascending order, as strings
ObjectEntries(keys, values) ==
    UNION {{[i \in 1..Cardinality(K) |->
               [key |-> DecimalString(SortAscending(K)[i]),
                value |-> f[SortAscending(K)[i]]]] : f \in [K -> values]} :
           K \in SUBSET keys}

\* probabilities, in thousandths: 0, 0.004 and 0.015
Probabilities == {0, 4, 15}

\* the newProbabilities argument: from-state -> to-state -> probability
ProbabilityObjects == ObjectEntries(Symbols, ObjectEntries(Symbols, Probabilities))

\* Math.round(probability * 100), the probability given in thousandths
ScaleToInteger(probability) == (probability + 5) \div 10

\* faulty variant: the current transitions are kept
KeepTable(table) == table

\* this.transitionTable.clear()
ClearTable(table) == EmptyTable

\* the loop over Object.entries(transitions) from entry j on
RECURSIVE RebuildTransitions(_, _, _, _)
RebuildTransitions(table, stateKey, transitions, j) ==
    IF j > Len(transitions) THEN table
    ELSE LET toState     == transitions[j].key
             probability == transitions[j].value
         IN  IF probability <= 0
             THEN RebuildTransitions(table, stateKey, transitions, j + 1)
             ELSE LET count   == ScaleToInteger(probability)
                      present == IF stateKey \in DOMAIN table THEN table
                                 ELSE [k \in DOMAIN table \cup {stateKey} |->
                                         IF k = stateKey THEN <<>> ELSE table[k]]
                      pushed  == [present EXCEPT ![stateKey] =
                                     @ \o [i \in 1..count |-> ParseInt(toState)]]
                  IN  RebuildTransitions(pushed, stateKey, transitions, j + 1)

\* the loop over Object.entries(newProbabilities) from entry i on
RECURSIVE RebuildTable(_, _, _)
RebuildTable(table, newProbabilities, i) ==
    IF i > Len(newProbabilities) THEN table
    ELSE LET stateKey == JsonStringify(<<ParseInt(newProbabilities[i].key)>>)
         IN  RebuildTable(RebuildTransitions(table, stateKey,
                                             newProbabilities[i].value, 1),
                          newProbabilities, i + 1)

updateProbabilities ==
    /\ mkPc = "idle"
    /\ \E newProbabilities \in ProbabilityObjects :
          /\ mkCall' = [MkNoCall EXCEPT !.op = "updateProbabilities",
                                        !.newProbabilities = newProbabilities]
          /\ IF order # 1
             THEN UNCHANGED transitionTable
             ELSE transitionTable' =
                     RebuildTable(ClearTable(transitionTable), newProbabilities, 1)
    /\ mkRet' = MkNoRet
    /\ mkPc' = "done"
    /\ MarkovFrame
    /\ UNCHANGED <<startingStates, trained>>

\* the set uniqueStates: every from-state and every next state
UniqueStates(table) ==
    UNION {{JsonParseFirst(state)} \cup Range(table[state]) : state \in DOMAIN table}

\* the counting loop over the entries `keys` of the table, as far as it
\* increments matrix[fromState][toState]
RECURSIVE CountLoop(_, _, _, _)
CountLoop(table, keys, fromState, toState) ==
    IF keys = {} THEN 0
    ELSE LET stateStr == CHOOSE s \in keys : TRUE
         IN  (IF JsonParseFirst(stateStr) = fromState
              THEN CountIn(table[stateStr], toState) ELSE 0)
             + CountLoop(table, keys \ {stateStr}, fromState, toState)

\* matrix[fromState][toState] after the counting loop
TransitionCount(table, fromState, toState) ==
    CountLoop(table, DOMAIN table, fromState, toState)

\* faulty variant: every row is divided by the number of states
NormalizeByStates(counts) ==
    [j \in 1..Len(counts) |-> [num |-> counts[j], den |-> Len(counts)]]

\* one row of counts divided by its total, when the total is positive
Normalize(counts) ==
    LET total == SumSeq(counts)
    IN  [j \in 1..Len(counts) |->
           IF total > 0 THEN [num |-> counts[j], den |-> total]
           ELSE [num |-> counts[j], den |-> 1]]

ProbabilityMatrix(table, states) ==
    [i \in 1..Len(states) |->
        Normalize([j \in 1..Len(states) |->
                     TransitionCount(table, states[i], states[j])])]

getProbabilityMatrix ==
    /\ mkPc = "idle"
    /\ mkCall' = [MkNoCall EXCEPT !.op = "getProbabilityMatrix"]
    /\ IF order # 1
       THEN mkRet' = [MkNoRet EXCEPT !.value = "null"]
       ELSE LET states == SortAscending(UniqueStates(transitionTable))
            IN  mkRet' = [MkNoRet EXCEPT !.value = "object", !.states = states,
                             !.matrix = ProbabilityMatrix(transitionTable, states)]
    /\ mkPc' = "done"
    /\ MarkovFrame
    /\ UNCHANGED <<transitionTable, startingStates, trained>>

\* the notes of the themes, distinct from every trained symbol
ThemeNotes == {<<70>>, <<71, 72, 73>>}

\* a theme: with no notes property, or with notes (an empty notes array is
\* skipped like a missing one, and would replace nothing if it were not)
Themes == {[given |-> FALSE, notes |-> <<>>]}
          \cup {[given |-> TRUE, notes |-> n] : n \in ThemeNotes}

\* the themes argument: absent (null), or an array of themes
ThemeLists == {[given |-> FALSE, list |-> <<>>]}
              \cup {[given |-> TRUE, list |-> l] : l \in SeqsUpTo(Themes, MaxThemes)}

\* faulty variant: every theme is placed at the start of the sequence
ThemePositionZero(i, segmentSize) == 0

\* themePositions[i]
ThemePosition(i, segmentSize) == i * segmentSize

\* the replacement loop for one theme: notesToReplace notes from position on
ReplaceNotes(baseSequence, notes, position) ==
    LET notesToReplace == Min(Len(notes), Len(baseSequence) - position)
    IN  [p \in 1..Len(baseSequence) |->
           IF p - 1 >= position /\ p - 1 < position + notesToReplace
           THEN notes[p - position]
           ELSE baseSequence[p]]

\* the insertion loop of generateWithThemes from theme i on
RECURSIVE InsertThemes(_, _, _, _)
InsertThemes(baseSequence, themes, segmentSize, i) ==
    IF i >= Len(themes) THEN baseSequence
    ELSE LET theme    == themes[i + 1]
             position == ThemePosition(i, segmentSize)
         IN  IF position >= Len(baseSequence)
             THEN InsertThemes(baseSequence, themes, segmentSize, i + 1)
             ELSE IF ~theme.given \/ Len(theme.notes) = 0
             THEN InsertThemes(baseSequence, themes, segmentSize, i + 1)
             ELSE InsertThemes(ReplaceNotes(baseSequence, theme.notes, position),
                               themes, segmentSize, i + 1)

\* the call of this.generate(length) is taken as one step here
generateWithThemes ==
    /\ mkPc = "idle"
    /\ \E length \in 0..MaxGenLen, themes \in ThemeLists :
          /\ mkCall' = [MkNoCall EXCEPT !.op = "generateWithThemes",
                                        !.length = length, !.themes = themes]
          /\ \E baseSequence \in GenerateResults(transitionTable, startingStates, order,
                                                 length, MkNoCall.startState) :
                IF ~themes.given \/ Len(themes.list) = 0
                THEN mkRet' = [MkNoRet EXCEPT !.value = "array",
                                  !.baseSequence = baseSequence,
                                  !.sequence = baseSequence]
                ELSE mkRet' = [MkNoRet EXCEPT !.value = "array",
                                  !.baseSequence = baseSequence,
                                  !.sequence = InsertThemes(baseSequence, themes.list,
                                                   length \div Len(themes.list), 0)]
    /\ mkPc' = "done"
    /\ MarkovFrame
    /\ UNCHANGED <<transitionTable, startingStates, trained>>

\* the operations that build a model by training alone, and those that use it
NextMarkov ==
    \/ train
    \/ generate
    \/ generateLoop
    \/ generateWithThemes
    \/ mkReturn

\* train, within the budget of the models that are also edited
trainEdited == train /\ TrainedTotal' <= MaxRetrained

\* the operations that build and edit a model, and those that read its table
NextMarkovChain ==
    \/ trainEdited
    \/ updateProbabilities
    \/ generate
    \/ generateLoop
    \/ getProbabilityMatrix
    \/ mkReturn

----------------------------------------------------------------------------
(* LSystem *)

Alphabet     == {"A", "B"}
Replacements == SeqsUpTo(Alphabet, 2)
\* the rules object: a replacement string for some of the symbols
RuleMaps     == UNION {[keys -> Replacements] : keys \in SUBSET Alphabet}
\* the axiom: the strings the rules rewrite, and one with a symbol, C, that
\* has no rule and is inverted by the default transformations
Axioms       == SeqsUpTo(Alphabet, 1) \cup {<<"A", "B">>, <<"A", "C">>}
LsPitches    == {0, 60, 127}

\* the truth value JavaScript gives a string in a condition
Truthy(str) == str # <<>>

\* faulty variant: a rule applies whatever its replacement
RuleAppliesAlways(ruleMap, symbol) == symbol \in DOMAIN ruleMap

\* if (this.rules[symbol])
RuleApplies(ruleMap, symbol) == symbol \in DOMAIN ruleMap /\ Truthy(ruleMap[symbol])

\* one pass of the inner loop of generate over `current`
Rewrite(ruleMap, current) ==
    Flatten([i \in 1..Len(current) |->
               IF RuleApplies(ruleMap, current[i]) THEN ruleMap[current[i]]
               ELSE <<current[i]>>])

RECURSIVE Derive(_, _, _)
Derive(ruleMap, current, iterations) ==
    IF iterations = 0 THEN current
    ELSE Derive(ruleMap, Rewrite(ruleMap, current), iterations - 1)

\* the transform functions, by name
ApplyTransform(name, note) ==
    CASE name = "up1"      -> Min(note + 1, 127)
      [] name = "down1"    -> Max(note - 1, 0)
      [] name = "invert"   -> 120 - note
      [] name = "octaveUp" -> note + 12
      [] OTHER             -> note

defaultTransform ==
    [symbol \in {"A", "B", "C", "D", "E", "F"} |->
        CASE symbol = "A" -> "up1"
          [] symbol = "B" -> "down1"
          [] symbol = "C" -> "invert"
          [] OTHER        -> "identity"]

\* the transformations argument: absent, an empty object, or one custom entry
TransformArgs == {"absent", "empty", "custom"}

\* transformations || defaultTransform
Transforms(arg) ==
    CASE arg = "absent" -> defaultTransform
      [] arg = "empty"  -> [symbol \in {} |-> "identity"]
      [] OTHER          -> [symbol \in {"A"} |-> "octaveUp"]

\* faulty variant: Math.floor in place of Math.ceil
SegmentSizeFloor(sequenceLength, resultLength) == sequenceLength \div resultLength

\* Math.ceil(sequence.length / this.result.length)
SegmentSize(sequenceLength, resultLength) ==
    (sequenceLength + resultLength - 1) \div resultLength

\* faulty variant: every segment is given the first symbol of the derivation
SegmentSymbolFirst(derivation, i) == derivation[1]

\* const symbol = this.result[i]
SegmentSymbol(derivation, i) == derivation[i + 1]

\* the segment loop of applyToMusic from derivation index i on
RECURSIVE SegmentLoop(_, _, _, _, _, _)
SegmentLoop(derivation, sequence, transforms, segmentSize, i, transformed) ==
    IF i >= Len(derivation) THEN transformed
    ELSE LET symbol   == SegmentSymbol(derivation, i)
             startIdx == i * segmentSize
             endIdx   == Min((i + 1) * segmentSize, Len(sequence))
         IN  IF startIdx >= Len(sequence) THEN transformed
             ELSE LET segment == SubSeq(sequence, startIdx + 1, endIdx)
                      out     == IF symbol \in DOMAIN transforms
                                 THEN [k \in 1..Len(segment) |->
                                         ApplyTransform(transforms[symbol], segment[k])]
                                 ELSE segment
                  IN  SegmentLoop(derivation, sequence, transforms, segmentSize,
                                  i + 1, transformed \o out)

applyToMusicResult(derivation, sequence, arg) ==
    IF derivation = <<>> THEN sequence
    ELSE SegmentLoop(derivation, sequence, Transforms(arg),
                     SegmentSize(Len(sequence), Len(derivation)), 0, <<>>)

LsNoCall == [op |-> "none", iterations |-> 0, sequence |-> <<>>,
             transformations |-> "absent", rulesStr |-> <<>>]
LsNoRet  == [string |-> <<>>, notes |-> <<>>, rules |-> <<>>]

InitLSystem ==
    /\ axiom \in Axioms
    /\ rules \in RuleMaps
    /\ result = axiom
    /\ priorResult = axiom
    /\ lsCall = LsNoCall
    /\ lsRet = LsNoRet

LSystemFrame == UNCHANGED <<axiom, rules, markovVars, caVars, sheetVars, audioVars>>

\* faulty variant: the rewriting goes on from the stored derivation
StartFromStored(ax, stored) == stored

\* let current = this.axiom
StartOfDerivation(ax, stored) == ax

lsGenerate ==
    /\ lsCall.op = "none"
    /\ \E iterations \in 0..MaxIterations :
          /\ lsCall' = [LsNoCall EXCEPT !.op = "generate", !.iterations = iterations]
          /\ result' = Derive(rules, StartOfDerivation(axiom, result), iterations)
    /\ lsRet' = [LsNoRet EXCEPT !.string = result']
    /\ priorResult' = result
    /\ LSystemFrame

applyToMusic ==
    /\ lsCall.op = "none"
    /\ \E sequence \in SeqsUpTo(LsPitches, MaxMusicLen), arg \in TransformArgs :
          /\ lsCall' = [LsNoCall EXCEPT !.op = "applyToMusic", !.sequence = sequence,
                                        !.transformations = arg]
          /\ lsRet' = [LsNoRet EXCEPT !.notes = applyToMusicResult(result, sequence, arg)]
    /\ priorResult' = result
    /\ LSystemFrame
    /\ UNCHANGED result

\* the caller takes the result; the instance is ready for the next call
lsReturn ==
    /\ lsCall.op # "none"
    /\ lsCall' = LsNoCall
    /\ lsRet' = LsNoRet
    /\ LSystemFrame
    /\ UNCHANGED <<result, priorResult>>

\* the pieces the rulesStr argument is written with; the ASCII arrow is two
\* characters
RuleTokens == {<<"A">>, <<"B">>, <<" ">>, <<",">>, <<";">>, <<"→">>, <<"-", ">">>}

\* rulesStr.replace(/→/g, "->")
ReplaceArrows(str) ==
    Flatten([i \in 1..Len(str) |-> IF str[i] = "→" THEN <<"-", ">">> ELSE <<str[i]>>])

\* the number of blanks of str from position i on, going by step (1 or -1)
RECURSIVE Blanks(_, _, _)
Blanks(str, i, step) ==
    IF i \in 1..Len(str) /\ str[i] = " " THEN 1 + Blanks(str, i + step, step) ELSE 0

\* String.prototype.trim
Trim(str) ==
    IF Blanks(str, 1, 1) = Len(str) THEN <<>>
    ELSE SubSeq(str, 1 + Blanks(str, 1, 1), Len(str) - Blanks(str, Len(str), -1))

\* the first position from `from` on where a separator matching /[,;]/ stands, else 0
RECURSIVE FirstSeparator(_, _)
FirstSeparator(str, from) ==
    IF from > Len(str) THEN 0
    ELSE IF str[from] \in {",", ";"} THEN from
    ELSE FirstSeparator(str, from + 1)

\* cleanedStr.split(/[,;]/), from position `from` on
RECURSIVE SplitSeparators(_, _)
SplitSeparators(str, from) ==
    LET at == FirstSeparator(str, from)
    IN  IF at = 0 THEN <<SubSeq(str, from, Len(str))>>
        ELSE <<SubSeq(str, from, at - 1)>> \o SplitSeparators(str, at + 1)

\* the first position from `from` on where "->" stands, else 0
RECURSIVE FirstArrow(_, _)
FirstArrow(str, from) ==
    IF from >= Len(str) THEN 0
    ELSE IF str[from] = "-" /\ str[from + 1] = ">" THEN from
    ELSE FirstArrow(str, from + 1)

\* pair.split(/\s*->\s*/), from position `from` on: the leftmost match takes
\* the blanks that stand before the arrow and, greedily, those after it
RECURSIVE SplitArrow(_, _)
SplitArrow(pair, from) ==
    LET at == FirstArrow(pair, from)
    IN  IF at = 0 THEN <<SubSeq(pair, from, Len(pair))>>
        ELSE LET before == Min(Blanks(pair, at - 1, -1), at - from)
                 after  == Blanks(pair, at + 2, 1)
             IN  <<SubSeq(pair, from, at - 1 - before)>>
                    \o SplitArrow(pair, at + 2 + after)

\* faulty variant: the length is tested after the symbol is trimmed
SymbolAcceptedTrimmed(symbol) == Len(Trim(symbol)) = 1

\* if (symbol.length === 1)
SymbolAccepted(symbol) == Len(symbol) = 1

\* the property name a string of at most one character gives
PropertyKey(str) == IF str = <<>> THEN "" ELSE str[1]

\* rules[symbol.trim()] = replacement.trim()
AssignRule(ruleMap, symbol, replacement) ==
    [key \in DOMAIN ruleMap \cup {PropertyKey(Trim(symbol))} |->
        IF key = PropertyKey(Trim(symbol)) THEN Trim(replacement) ELSE ruleMap[key]]

\* the loop over rulePairs from pair k on
RECURSIVE ParseRulesLoop(_, _, _)
ParseRulesLoop(ruleMap, rulePairs, k) ==
    IF k > Len(rulePairs) THEN ruleMap
    ELSE LET parts == SplitArrow(rulePairs[k], 1)
         IN  IF Len(parts) = 2 /\ SymbolAccepted(parts[1])
             THEN ParseRulesLoop(AssignRule(ruleMap, parts[1], parts[2]), rulePairs, k + 1)
             ELSE ParseRulesLoop(ruleMap, rulePairs, k + 1)

NoRules == [symbol \in {} |-> <<>>]

\* LSystem.parseRules is static: it reads and writes no instance
parseRules ==
    /\ lsCall.op = "none"
    /\ \E tokens \in SeqsUpTo(RuleTokens, MaxRuleTokens) :
          LET rulesStr == Flatten(tokens)
          IN  /\ lsCall' = [LsNoCall EXCEPT !.op = "parseRules", !.rulesStr = rulesStr]
              /\ lsRet' = [LsNoRet EXCEPT !.rules =
                              ParseRulesLoop(NoRules,
                                  SplitSeparators(Trim(ReplaceArrows(rulesStr)), 1), 1)]
    /\ LSystemFrame
    /\ UNCHANGED <<result, priorResult>>

NextParseRules ==
    \/ parseRules
    \/ lsReturn

NextLSystem ==
    \/ lsGenerate
    \/ applyToMusic
    \/ lsReturn

----------------------------------------------------------------------------
(* CellularAutomata *)

Rules == {30, 90}
Sizes == {0, 1, 2, 3, 4, 8}
Bit   == {0, 1}
\* the initialState argument: absent (null), or a binary array
InitialStates == {[given |-> FALSE, cells |-> <<>>]}
                 \cup {[given |-> TRUE, cells |-> c] : c \in SeqsUpTo(Bit, 4)}

DigitChar(b) == IF b = 0 THEN "0" ELSE "1"

\* i.toString(2)
RECURSIVE ToString2(_)
ToString2(i) == IF i < 2 THEN <<DigitChar(i)>>
                ELSE ToString2(i \div 2) \o <<DigitChar(i % 2)>>

\* str.padStart(n, '0')
RECURSIVE PadStart0(_, _)
PadStart0(str, n) == IF Len(str) >= n THEN str ELSE PadStart0(<<"0">> \o str, n)

\* faulty variant: the rule number read from its most significant bit
RuleBitMsbFirst(r, i) == IF (r \div Pow2(7 - i)) % 2 = 1 THEN 1 ELSE 0

\* (rule & (1 << i)) ? 1 : 0
RuleBit(r, i) == IF (r \div Pow2(i)) % 2 = 1 THEN 1 ELSE 0

generateRuleTable(r) ==
    [pattern \in {PadStart0(ToString2(i), 3) : i \in 0..7} |->
        LET i == CHOOSE k \in 0..7 : PadStart0(ToString2(k), 3) = pattern
        IN  RuleBit(r, i)]

\* `${left}${center}${right}` looked up in the rule table
getNextCellState(table, left, center, right) ==
    table[<<DigitChar(left), DigitChar(center), DigitChar(right)>>]

\* Array(size).fill(0) with index floor(size/2) set to 1 (the assignment
\* extends a zero-length array to length 1)
DefaultSeed(sz) ==
    [i \in 1..Max(sz, (sz \div 2) + 1) |-> IF i - 1 = sz \div 2 THEN 1 ELSE 0]

ConstructState(sz, initialState) ==
    IF initialState.given /\ Len(initialState.cells) = sz
    THEN initialState.cells
    ELSE DefaultSeed(sz)

\* faulty variant: cells beyond the ends of the row read as 0 (no wrap-around)
EvolveCellNoWrap(table, cur, sz, i) ==
    LET left   == IF i = 0 THEN 0 ELSE cur[i]
        center == cur[i + 1]
        right  == IF i = sz - 1 THEN 0 ELSE cur[i + 2]
    IN  getNextCellState(table, left, center, right)

\* the cell computed by evolve for index i (0-based) of the new row
EvolveCell(table, cur, sz, i) ==
    LET left   == cur[((i - 1 + sz) % sz) + 1]
        center == cur[i + 1]
        right  == cur[((i + 1) % sz) + 1]
    IN  getNextCellState(table, left, center, right)

NextState(table, cur, sz) == [i \in 1..sz |-> EvolveCell(table, cur, sz, i - 1)]

\* faulty variant: the history is restarted from the new row
PushHistoryReset(h, row) == <<row>>

\* this.history.push(this.currentState.slice())
PushHistory(h, row) == Append(h, row)

\* the rows returned by n successive calls of evolve, starting from cur
RECURSIVE EvolveRows(_, _, _, _)
EvolveRows(table, cur, sz, n) ==
    IF n = 0 THEN <<>>
    ELSE LET nxt == NextState(table, cur, sz)
         IN  <<nxt>> \o EvolveRows(table, nxt, sz, n - 1)

RECURSIVE PushAll(_, _)
PushAll(h, rows) == IF rows = <<>> THEN h ELSE PushAll(PushHistory(h, Head(rows)), Tail(rows))

LastOr(rows, dflt) == IF rows = <<>> THEN dflt ELSE rows[Len(rows)]

\* The call record and the returned value, with one field per argument and
\* per kind of result; a field an operation does not use keeps its value here.
NoCall == [op |-> "none", row |-> 0, notes |-> <<>>, durations |-> <<>>, range |-> 0,
           steps |-> 0, length |-> 0, lo |-> 0, hi |-> 0]
NoRet  == [cells |-> <<>>, rows |-> <<>>, fractions |-> <<>>,
           notes |-> <<>>, durations |-> <<>>]

InitCA ==
    /\ rule \in Rules
    /\ size \in Sizes
    /\ ruleTable = generateRuleTable(rule)
    /\ \E initialState \in InitialStates :
          currentState = ConstructState(size, initialState)
    /\ history = <<currentState>>
    /\ caPc = "idle"
    /\ caCall = NoCall
    /\ caRet = NoRet
    /\ fullRhythm = <<>>

\* every operation leaves the configuration, and the other two instances, alone
CAFrame == UNCHANGED <<rule, size, ruleTable, markovVars, lsVars, sheetVars, audioVars>>

evolve ==
    /\ caPc = "idle"
    /\ Len(history) < MaxHistory
    /\ currentState' = NextState(ruleTable, currentState, size)
    /\ history' = PushHistory(history, currentState')
    /\ caRet' = [NoRet EXCEPT !.cells = currentState']
    /\ caCall' = [NoCall EXCEPT !.op = "evolve"]
    /\ caPc' = "done"
    /\ CAFrame
    /\ UNCHANGED fullRhythm

evolveMultiple ==
    /\ caPc = "idle"
    /\ \E steps \in 0..MaxSteps :
          /\ Len(history) + steps <= MaxHistory
          /\ LET rows == EvolveRows(ruleTable, currentState, size, steps)
             IN  /\ currentState' = LastOr(rows, currentState)
                 /\ history' = PushAll(history, rows)
                 /\ caRet' = [NoRet EXCEPT !.rows = rows]
          /\ caCall' = [NoCall EXCEPT !.op = "evolveMultiple", !.steps = steps]
    /\ caPc' = "done"
    /\ CAFrame
    /\ UNCHANGED fullRhythm

\* the arguments the operations are called with
RowArgs        == (0 - 2)..MaxHistory
Pitches        == {0, 64, 127}
RangeArgs      == {0, 4}
PairPitches    == {60, 62}
DurationValues == {1, 2}
DurationRanges == {<<1, 8>>, <<2, 2>>}
PitchRanges    == {<<48, 84>>, <<60, 60>>}

toRhythm(h, row) ==
    LET rowIndex == IF row = 0 - 1 THEN Len(h) - 1 ELSE row
    IN  IF rowIndex < 0 \/ rowIndex >= Len(h) THEN <<>> ELSE h[rowIndex + 1]

\* outMin + (outMax - outMin) * (value - inMin) / (inMax - inMin), as the
\* fraction num/den; den = 0 is the division by zero of JavaScript
mapValue(value, inMin, inMax, outMin, outMax) ==
    [num |-> outMin * (inMax - inMin) + (outMax - outMin) * (value - inMin),
     den |-> inMax - inMin]

\* faulty variant: no look-ahead, the note ends with its own cell
NoteRunOneCell(rhythm, i, noteDuration) == noteDuration

\* the look-ahead loop of toDurations: noteDuration after the while loop
RECURSIVE NoteRun(_, _, _)
NoteRun(rhythm, i, noteDuration) ==
    IF i + noteDuration < Len(rhythm) /\ rhythm[i + noteDuration + 1] = 0
    THEN NoteRun(rhythm, i, noteDuration + 1)
    ELSE noteDuration

\* the for loop of toDurations from index i on, and the final rest
RECURSIVE ToDurationsLoop(_, _, _, _, _, _)
ToDurationsLoop(rhythm, i, currentDuration, durations, minDuration, maxDuration) ==
    IF i >= Len(rhythm)
    THEN IF currentDuration > 0
         THEN Append(durations, [num |-> 0 - currentDuration, den |-> 1])
         ELSE durations
    ELSE IF rhythm[i + 1] = 1
    THEN LET withRest == IF currentDuration > 0
                         THEN Append(durations, [num |-> 0 - currentDuration, den |-> 1])
                         ELSE durations
             rest     == IF currentDuration > 0 THEN 0 ELSE currentDuration
             noteDuration == NoteRun(rhythm, i, 1)
             scaledDuration == mapValue(noteDuration, 1, Len(rhythm) \div 2,
                                        minDuration, maxDuration)
         IN  ToDurationsLoop(rhythm, i + noteDuration, rest,
                             Append(withRest, scaledDuration), minDuration, maxDuration)
    ELSE ToDurationsLoop(rhythm, i + 1, currentDuration + minDuration, durations,
                         minDuration, maxDuration)

toDurations(h, row, minDuration, maxDuration) ==
    ToDurationsLoop(toRhythm(h, row), 0, 0, <<>>, minDuration, maxDuration)

\* fullRhythm.slice(0, n)
Slice0(s, n) == SubSeq(s, 1, Min(n, Len(s)))

\* faulty variant: the duration is taken at the index of the output
RECURSIVE GateLoopMisaligned(_, _, _, _, _, _)
GateLoopMisaligned(notes, durations, rhythm, i, newNotes, newDurations) ==
    IF i >= Len(notes) THEN [notes |-> newNotes, durations |-> newDurations]
    ELSE IF i < Len(rhythm) /\ rhythm[i + 1] = 1
    THEN GateLoopMisaligned(notes, durations, rhythm, i + 1,
                            Append(newNotes, notes[i + 1]),
                            Append(newDurations, durations[Len(newNotes) + 1]))
    ELSE GateLoopMisaligned(notes, durations, rhythm, i + 1, newNotes, newDurations)

\* the filter loop of applyToSequence over the trimmed rhythm
RECURSIVE GateLoop(_, _, _, _, _, _)
GateLoop(notes, durations, rhythm, i, newNotes, newDurations) ==
    IF i >= Len(notes) THEN [notes |-> newNotes, durations |-> newDurations]
    ELSE IF i < Len(rhythm) /\ rhythm[i + 1] = 1
    THEN GateLoop(notes, durations, rhythm, i + 1,
                  Append(newNotes, notes[i + 1]), Append(newDurations, durations[i + 1]))
    ELSE GateLoop(notes, durations, rhythm, i + 1, newNotes, newDurations)

\* pattern[index] of JavaScript: undefined outside 0..length-1, and
\* adding undefined to a number gives NaN
RECURSIVE NeighborhoodCount(_, _, _, _)
NeighborhoodCount(pattern, i, j, neighborhood) ==
    IF j > neighborhood THEN 0
    ELSE LET index == JsRem(i + j + Len(pattern), Len(pattern))
             rest  == NeighborhoodCount(pattern, i, j + 1, neighborhood)
         IN  IF index < 0 \/ index >= Len(pattern) \/ rest = NaN
             THEN NaN
             ELSE pattern[index + 1] + rest

\* Math.round(note + t) for the fraction t, rounding halves up
RoundSum(note, t) == (2 * (note * t.den + t.num) + t.den) \div (2 * t.den)

\* Math.max(0, Math.min(127, x)); NaN passes through both
ClampMidi(x) == IF x = NaN THEN NaN ELSE Max(0, Min(127, x))

Neighborhood == 3

TransposeNote(note, pattern, i, range) ==
    LET count == NeighborhoodCount(pattern, i, 0 - Neighborhood, Neighborhood)
    IN  IF count = NaN THEN ClampMidi(NaN)
        ELSE ClampMidi(RoundSum(note,
                 mapValue(count, 0, Neighborhood * 2 + 1, 0 - range, range)))

\* Math.floor(minPitch + (activeCount / size) * (maxPitch - minPitch))
DensityPitch(state, sz, minPitch, maxPitch) ==
    LET activeCount == SumSeq(state)
        span        == maxPitch - minPitch
    IN  IF sz # 0 THEN minPitch + ((activeCount * span) \div sz)
        ELSE IF activeCount = 0 \/ span = 0 THEN NaN
        ELSE IF span > 0 THEN PosInfinity ELSE NegInfinity

toRhythmCall ==
    /\ caPc = "idle"
    /\ \E row \in RowArgs :
          /\ caCall' = [NoCall EXCEPT !.op = "toRhythm", !.row = row]
          /\ caRet' = [NoRet EXCEPT !.cells = toRhythm(history, row)]
    /\ caPc' = "done"
    /\ CAFrame
    /\ UNCHANGED <<currentState, history, fullRhythm>>

toDurationsCall ==
    /\ caPc = "idle"
    /\ \E row \in RowArgs, d \in DurationRanges :
          /\ caCall' = [NoCall EXCEPT !.op = "toDurations", !.row = row,
                                       !.lo = d[1], !.hi = d[2]]
          /\ caRet' = [NoRet EXCEPT !.fractions = toDurations(history, row, d[1], d[2])]
    /\ caPc' = "done"
    /\ CAFrame
    /\ UNCHANGED <<currentState, history, fullRhythm>>

\* applyToSequence up to the tiling loop
applyToSequenceCall ==
    /\ caPc = "idle"
    /\ \E notes \in SeqsUpTo(PairPitches, MaxNotes), row \in RowArgs :
       \E durations \in [1..Len(notes) -> DurationValues] :
          caCall' = [NoCall EXCEPT !.op = "applyToSequence", !.notes = notes,
                                    !.durations = durations, !.row = row]
    /\ fullRhythm' = <<>>
    /\ caPc' = "tileSeq"
    /\ CAFrame
    /\ UNCHANGED <<currentState, history, caRet>>

\* one test of `while (fullRhythm.length < notes.length)`: either one more
\* copy of the row is pushed, or the loop is left and the call completes
applyToSequenceTile ==
    /\ caPc = "tileSeq"
    /\ IF Len(fullRhythm) < Len(caCall.notes)
       THEN /\ fullRhythm' = fullRhythm \o toRhythm(history, caCall.row)
            /\ UNCHANGED <<caPc, caRet>>
       ELSE /\ LET kept == GateLoop(caCall.notes, caCall.durations,
                                     Slice0(fullRhythm, Len(caCall.notes)), 0, <<>>, <<>>)
               IN  caRet' = [NoRet EXCEPT !.notes = kept.notes,
                                          !.durations = kept.durations]
            /\ fullRhythm' = <<>>
            /\ caPc' = "done"
    /\ CAFrame
    /\ UNCHANGED <<currentState, history, caCall>>

\* applyToPitches up to the tiling loop
applyToPitchesCall ==
    /\ caPc = "idle"
    /\ \E notes \in SeqsUpTo(Pitches, MaxNotes), row \in RowArgs, range \in RangeArgs :
          caCall' = [NoCall EXCEPT !.op = "applyToPitches", !.notes = notes,
                                    !.row = row, !.range = range]
    /\ fullRhythm' = <<>>
    /\ caPc' = "tilePitch"
    /\ CAFrame
    /\ UNCHANGED <<currentState, history, caRet>>

\* one test of `while (fullPattern.length < notes.length)`, then the map
applyToPitchesTile ==
    /\ caPc = "tilePitch"
    /\ IF Len(fullRhythm) < Len(caCall.notes)
       THEN /\ fullRhythm' = fullRhythm \o toRhythm(history, caCall.row)
            /\ UNCHANGED <<caPc, caRet>>
       ELSE /\ LET pattern == Slice0(fullRhythm, Len(caCall.notes))
               IN  caRet' = [NoRet EXCEPT !.cells =
                              [i \in 1..Len(caCall.notes) |->
                                 TransposeNote(caCall.notes[i], pattern, i - 1,
                                               caCall.range)]]
            /\ fullRhythm' = <<>>
            /\ caPc' = "done"
    /\ CAFrame
    /\ UNCHANGED <<currentState, history, caCall>>

generatePitches ==
    /\ caPc = "idle"
    /\ \E length \in 0..MaxHistory, p \in PitchRanges :
          LET rows == EvolveRows(ruleTable, currentState, size,
                                 Max(0, length - Len(history)))
          IN  /\ currentState' = LastOr(rows, currentState)
              /\ history' = PushAll(history, rows)
              /\ caRet' = [NoRet EXCEPT !.cells =
                             [i \in 1..length |->
                                DensityPitch(history'[((i - 1) % Len(history')) + 1],
                                             size, p[1], p[2])]]
              /\ caCall' = [NoCall EXCEPT !.op = "generatePitches", !.length = length,
                                          !.lo = p[1], !.hi = p[2]]
    /\ caPc' = "done"
    /\ CAFrame
    /\ UNCHANGED fullRhythm

\* the caller takes the result; the instance is ready for the next call
caReturn ==
    /\ caPc = "done"
    /\ caPc' = "idle"
    /\ caCall' = NoCall
    /\ caRet' = NoRet
    /\ CAFrame
    /\ UNCHANGED <<currentState, history, fullRhythm>>

NextCA ==
    \/ evolve
    \/ evolveMultiple
    \/ toRhythmCall
    \/ toDurationsCall
    \/ applyToSequenceCall
    \/ applyToSequenceTile
    \/ applyToPitchesCall
    \/ applyToPitchesTile
    \/ generatePitches
    \/ caReturn

----------------------------------------------------------------------------
(* SheetMusicAnalyzer: the page renders of the score viewer.  Every call   *)
(* of renderPage starts a task of two asynchronous phases, the fetch of    *)
(* the page and the painting of the one canvas the instance owns; the      *)
(* library settles each phase with success or failure.                     *)

Pages == 1..MaxPages

\* the values of the zoom selector, in percent
Scales == {100, 150}

\* a task is a page and the phase its render is in
Tasks == Pages \X {"getPage", "render"}

NoRenders == [task \in Tasks |-> 0]

InFlight(tasks) == {task \in Tasks : tasks[task] > 0}

RECURSIVE CountRenders(_, _)
CountRenders(tasks, among) ==
    IF among = {} THEN 0
    ELSE LET task == CHOOSE x \in among : TRUE
         IN tasks[task] + CountRenders(tasks, among \ {task})

Started(tasks, task) == [tasks EXCEPT ![task] = @ + 1]

Settled(tasks, task) == [tasks EXCEPT ![task] = @ - 1]

InitSheetMusic ==
    /\ pdfDoc = FALSE
    /\ pageNum = 1
    /\ pageRendering = FALSE
    /\ pageNumPending = 0
    /\ scale = 100
    /\ renders = NoRenders
    /\ canvas = {}
    /\ pdfViewer = "empty"

SheetFrame == UNCHANGED <<markovVars, lsVars, caVars, audioVars>>

\* renderPage(num) on a loaded document: the flag is raised and the page asked for
renderPage(num, tasks) ==
    /\ pageRendering' = TRUE
    /\ renders' = Started(tasks, <<num, "getPage">>)

\* the document of loadPDF arrives: it is kept and the current page rendered
loadPDFResolved ==
    /\ ~pdfDoc
    /\ pdfDoc' = TRUE
    /\ renderPage(pageNum, renders)
    /\ SheetFrame
    /\ UNCHANGED <<pageNum, pageNumPending, scale, canvas, pdfViewer>>

\* the document of loadPDF fails to load: the viewer shows the error
loadPDFRejected ==
    /\ ~pdfDoc
    /\ pdfViewer' = "error"
    /\ SheetFrame
    /\ UNCHANGED <<pdfDoc, pageNum, pageRendering, pageNumPending, scale, renders, canvas>>

changePage ==
    \E offset \in {0 - 1, 1} :
        LET newPageNum == pageNum + offset IN
        /\ pdfDoc
        /\ newPageNum >= 1 /\ newPageNum <= MaxPages
        /\ pageNum' = newPageNum
        /\ IF pageRendering
           THEN /\ pageNumPending' = newPageNum
                /\ UNCHANGED <<pageRendering, renders>>
           ELSE /\ CountRenders(renders, Tasks) < MaxRenders
                /\ renderPage(newPageNum, renders)
                /\ UNCHANGED pageNumPending
        /\ SheetFrame
        /\ UNCHANGED <<pdfDoc, scale, canvas, pdfViewer>>

zoom ==
    \E newScale \in Scales :
        /\ pdfDoc
        /\ CountRenders(renders, Tasks) < MaxRenders
        /\ scale' = newScale
        /\ renderPage(pageNum, renders)
        /\ SheetFrame
        /\ UNCHANGED <<pdfDoc, pageNum, pageNumPending, canvas, pdfViewer>>

\* the page of a task arrives: the canvas takes its size, which blanks it,
\* and the painting starts
getPageResolved ==
    \E num \in Pages :
        /\ renders[<<num, "getPage">>] > 0
        /\ canvas' = {}
        /\ renders' = Started(Settled(renders, <<num, "getPage">>), <<num, "render">>)
        /\ SheetFrame
        /\ UNCHANGED <<pdfDoc, pageNum, pageRendering, pageNumPending, scale, pdfViewer>>

\* the page of a task fails to arrive: the catch handler lowers the flag and
\* shows the error
getPageRejected ==
    \E num \in Pages :
        /\ renders[<<num, "getPage">>] > 0
        /\ renders' = Settled(renders, <<num, "getPage">>)
        /\ pageRendering' = FALSE
        /\ pdfViewer' = "error"
        /\ SheetFrame
        /\ UNCHANGED <<pdfDoc, pageNum, pageNumPending, scale, canvas>>

\* the painting of a task finishes: the flag is lowered, a pending page is
\* rendered in its turn, and the viewer is given the canvas
renderResolved ==
    \E num \in Pages :
        /\ renders[<<num, "render">>] > 0
        /\ canvas' = canvas \cup {num}
        /\ IF pageNumPending # 0
           THEN renderPage(pageNumPending, Settled(renders, <<num, "render">>))
           ELSE /\ pageRendering' = FALSE
                /\ renders' = Settled(renders, <<num, "render">>)
        /\ pageNumPending' = 0
        /\ pdfViewer' = "canvas"
        /\ SheetFrame
        /\ UNCHANGED <<pdfDoc, pageNum, scale>>

\* the painting of a task fails: its promise is not returned to the chain
\* the catch handler hangs on, so no handler runs
renderRejected ==
    \E num \in Pages :
        /\ renders[<<num, "render">>] > 0
        /\ renders' = Settled(renders, <<num, "render">>)
        /\ SheetFrame
        /\ UNCHANGED <<pdfDoc, pageNum, pageRendering, pageNumPending, scale, canvas,
                       pdfViewer>>

NextSheetMusic ==
    \/ loadPDFResolved
    \/ loadPDFRejected
    \/ changePage
    \/ zoom
    \/ getPageResolved
    \/ getPageRejected
    \/ renderResolved
    \/ renderRejected

----------------------------------------------------------------------------
(* AudioAnalyzer: file loads and the analysis of the loaded buffer.  A     *)
(* piece of audio data is written as the number of the file it comes from, *)
(* and a piece of derived data as the number of the file it was computed   *)
(* from; 0 is null.                                                        *)

Files == 1..MaxFiles

NoAnalysis ==
    [value |-> "none", envelope |-> 0, peaks |-> 0, beats |-> 0, frequencies |-> 0,
     duration |-> 0]

InitAudio ==
    /\ audioContext \in BOOLEAN
    /\ audioBuffer = 0
    /\ peakData = 0
    /\ beatData = 0
    /\ frequencyData = 0
    /\ loading = {}
    /\ analysis = NoAnalysis

AudioFrame == UNCHANGED <<markovVars, lsVars, caVars, sheetVars>>

\* no call of the instance is running: the event loop can run a handler
AudioIdle == analysis = NoAnalysis

\* a load is refused without an audio context; otherwise it is in flight
loadAudioFile ==
    \E url \in Files :
        /\ AudioIdle
        /\ audioContext
        /\ loading' = loading \cup {<<url, "url">>}
        /\ AudioFrame
        /\ UNCHANGED <<audioContext, audioBuffer, peakData, beatData, frequencyData,
                       analysis>>

loadAudioFromFile ==
    \E file \in Files :
        /\ AudioIdle
        /\ audioContext
        /\ loading' = loading \cup {<<file, "file">>}
        /\ AudioFrame
        /\ UNCHANGED <<audioContext, audioBuffer, peakData, beatData, frequencyData,
                       analysis>>

\* the data of a load is decoded: the buffer is kept, and nothing else is written
audioLoaded ==
    \E load \in loading :
        /\ AudioIdle
        /\ audioBuffer' = load[1]
        /\ loading' = loading \ {load}
        /\ AudioFrame
        /\ UNCHANGED <<audioContext, peakData, beatData, frequencyData, analysis>>

\* the fetch, the read or the decoding of a load fails
audioLoadFailed ==
    \E load \in loading :
        /\ AudioIdle
        /\ loading' = loading \ {load}
        /\ AudioFrame
        /\ UNCHANGED <<audioContext, audioBuffer, peakData, beatData, frequencyData,
                       analysis>>

extractEnvelope(audioData) == audioData

findPeaks(cached, envelope) == IF cached # 0 THEN cached ELSE envelope

detectBeats(cached, peaks) == IF cached # 0 THEN cached ELSE peaks

analyzeFrequencies(cached, audioData) == IF cached # 0 THEN cached ELSE audioData

analyzeAudio ==
    /\ AudioIdle
    /\ IF audioBuffer = 0
       THEN /\ analysis' = [NoAnalysis EXCEPT !.value = "throws"]
            /\ UNCHANGED <<peakData, beatData, frequencyData>>
       ELSE LET rawData == audioBuffer
                envelope == extractEnvelope(rawData)
                peaks == findPeaks(peakData, envelope)
                beats == detectBeats(beatData, peaks)
                frequencies == analyzeFrequencies(frequencyData, rawData)
            IN /\ peakData' = peaks
               /\ beatData' = beats
               /\ frequencyData' = frequencies
               /\ analysis' = [value |-> "object", envelope |-> envelope,
                               peaks |-> peaks, beats |-> beats,
                               frequencies |-> frequencies, duration |-> audioBuffer]
    /\ AudioFrame
    /\ UNCHANGED <<audioContext, audioBuffer, loading>>

\* the caller takes the result or the error
analysisReturn ==
    /\ analysis # NoAnalysis
    /\ analysis' = NoAnalysis
    /\ AudioFrame
    /\ UNCHANGED <<audioContext, audioBuffer, peakData, beatData, frequencyData, loading>>

NextAudio ==
    \/ loadAudioFile
    \/ loadAudioFromFile
    \/ audioLoaded
    \/ audioLoadFailed
    \/ analyzeAudio
    \/ analysisReturn

----------------------------------------------------------------------------
(* Specifications: one per component, the other instances left as         *)
(* constructed and untouched.                                             *)

MarkovParked ==
    /\ order = 1
    /\ transitionTable = EmptyTable
    /\ startingStates = <<>>
    /\ trained = <<>>
    /\ mkPc = "idle"
    /\ mkCall = MkNoCall
    /\ mkRet = MkNoRet

LSystemParked ==
    /\ axiom = <<"A">>
    /\ rules = [symbol \in {} |-> <<>>]
    /\ result = axiom
    /\ priorResult = axiom
    /\ lsCall = LsNoCall
    /\ lsRet = LsNoRet

AutomatonParked ==
    /\ rule = 30
    /\ size = 8
    /\ ruleTable = generateRuleTable(rule)
    /\ currentState = DefaultSeed(size)
    /\ history = <<currentState>>
    /\ caPc = "idle"
    /\ caCall = NoCall
    /\ caRet = NoRet
    /\ fullRhythm = <<>>

\* the viewer and the analyzer as constructed, with an audio context
CollaboratorsParked ==
    /\ InitSheetMusic
    /\ InitAudio
    /\ audioContext

InitSequenceParked ==
    MarkovParked /\ LSystemParked /\ AutomatonParked /\ CollaboratorsParked

InitSequenceModel == InitMarkov /\ LSystemParked /\ AutomatonParked /\ CollaboratorsParked

\* what an iteration of the generation loop can change
walkVars == <<mkPc, mkRet>>

\* The models built by train calls only.
SpecMarkov == InitSequenceModel /\ [][NextMarkov]_vars

\* The models built by train calls and edited by updateProbabilities.  A call
\* that has entered the loop of generate goes on executing it.
SpecMarkovChain ==
    /\ InitSequenceModel
    /\ [][NextMarkovChain]_vars
    /\ WF_walkVars(generateLoop)

InitRewritingSystem == InitLSystem /\ MarkovParked /\ AutomatonParked /\ CollaboratorsParked

SpecLSystem == InitRewritingSystem /\ [][NextLSystem]_vars

\* The static parser of rule strings, called beside a parked instance.
SpecParseRules == InitSequenceParked /\ [][NextParseRules]_vars

InitAutomaton == InitCA /\ MarkovParked /\ LSystemParked /\ CollaboratorsParked

\* what an iteration of a tiling loop can change
tileVars == <<caPc, fullRhythm>>

\* A call that has entered a loop goes on executing it: the code is
\* synchronous and nothing preempts it.
SpecCA ==
    /\ InitAutomaton
    /\ [][NextCA]_vars
    /\ WF_tileVars(applyToSequenceTile)
    /\ WF_tileVars(applyToPitchesTile)

\* The viewer under every interleaving of its calls with the settlements
\* of its page renders.
SpecSheetMusic == InitSequenceParked /\ [][NextSheetMusic]_vars

\* the analyzer as constructed, with or without an audio context
InitAnalyzer ==
    /\ InitAudio
    /\ InitSheetMusic
    /\ MarkovParked /\ LSystemParked /\ AutomatonParked

\* The analyzer under every interleaving of its calls with the settlements
\* of its loads.
SpecAudio == InitAnalyzer /\ [][NextAudio]_vars

----------------------------------------------------------------------------
(* Claims about CellularAutomata, checked under SpecCA *)

RowValid(row) == row = 0 - 1 \/ (row >= 0 /\ row < Len(history))

Returned(op) == caPc = "done" /\ caCall.op = op

\* C2: for every valid row index, every list of pitches in 0..127 and every
\* range >= 0, applyToPitches returns a list of the input's length whose
\* every element is an integer in 0..127.
C2_PitchesInMidiRange ==
    (Returned("applyToPitches") /\ RowValid(caCall.row)) =>
        /\ Len(caRet.cells) = Len(caCall.notes)
        /\ \A i \in 1..Len(caRet.cells) : caRet.cells[i] \in 0..127

\* C3: for a row index that is neither -1 nor an index of History, toRhythm
\* and toDurations return the empty sequence, applyToSequence and
\* applyToPitches run to completion, and History is unchanged by the call.
C3_InvalidRowFailsSoft ==
    /\ [](((Returned("toRhythm") \/ Returned("toDurations")) /\ ~RowValid(caCall.row))
            => caRet = NoRet)
    /\ [][(caCall'.op \in {"toRhythm", "toDurations", "applyToSequence", "applyToPitches"})
            => history' = history]_vars
    /\ ((caPc \in {"tileSeq", "tilePitch"} /\ ~RowValid(caCall.row)) ~> (caPc = "done"))

\* C8: evolve appends and returns the row whose cell i is bit 4*l + 2*c + r
\* of the rule number, l, c, r being the previous row's cells at (i-1) mod W,
\* i and (i+1) mod W; rule 30 on 00001000 gives 00011100.
C8_EvolveAppliesRule ==
    /\ Returned("evolve") =>
          LET prev == history[Len(history) - 1]
              new  == history[Len(history)]
          IN  /\ caRet.cells = new
              /\ Len(new) = size
              /\ \A i \in 0..(size - 1) :
                    LET l == prev[((i - 1) % size) + 1]
                        c == prev[i + 1]
                        r == prev[((i + 1) % size) + 1]
                    IN  new[i + 1] = (rule \div Pow2(4 * l + 2 * c + r)) % 2
    /\ (rule = 30 /\ Len(history) >= 2 /\ history[1] = <<0, 0, 0, 0, 1, 0, 0, 0>>)
          => history[2] = <<0, 0, 0, 1, 1, 1, 0, 0>>

C8_Witness ==
    /\ Returned("evolve")
    /\ rule = 30
    /\ size = 8
    /\ history = << <<0, 0, 0, 0, 1, 0, 0, 0>>, <<0, 0, 0, 1, 1, 1, 0, 0>> >>

RECURSIVE Binomial(_, _)
Binomial(n, k) == IF k = 0 \/ k = n THEN 1
                  ELSE Binomial(n - 1, k - 1) + Binomial(n - 1, k)

\* generation g of the Rule-90 triangle grown from one cell at index seed,
\* restricted to the indices 0..w-1
Sierpinski(g, w, seed) ==
    [i \in 1..w |->
        LET d == (i - 1) - seed
        IN  IF d >= 0 - g /\ d <= g /\ (g + d) % 2 = 0
               /\ Binomial(g, (g + d) \div 2) % 2 = 1
            THEN 1 ELSE 0]

Rule90Width8 == rule = 90 /\ size = 8 /\ history[1] = <<0, 0, 0, 0, 1, 0, 0, 0>>

\* C9 as stated: with rule 90, width 8 and the default seed, each of the
\* first 4 evolved rows is the corresponding row of the Sierpinski triangle
\* restricted to the indices 0..7.
C9_FourSierpinskiRows ==
    Rule90Width8 =>
        \A g \in 1..4 : g + 1 <= Len(history) => history[g + 1] = Sierpinski(g, 8, 4)

\* C9 amended: the first 3 evolved rows are the Sierpinski rows; the 4th is
\* all zeros, the two arms of the triangle meeting across the periodic
\* boundary at index 0.
C9_ThreeSierpinskiRows ==
    Rule90Width8 =>
        /\ \A g \in 1..3 : g + 1 <= Len(history) => history[g + 1] = Sierpinski(g, 8, 4)
        /\ Len(history) >= 5 => history[5] = <<0, 0, 0, 0, 0, 0, 0, 0>>

C9_Witness == Rule90Width8 /\ Len(history) >= 5 /\ caPc = "done"

\* C10: History only grows; rows already in it keep index and contents;
\* evolve appends exactly one row, evolveMultiple(steps) exactly `steps`
\* rows, which it returns in production order.
C10_HistoryAppendOnly ==
    [][/\ Len(history') >= Len(history)
       /\ SubSeq(history', 1, Len(history)) = history
       /\ (caPc = "idle" /\ caCall'.op = "evolve") =>
              /\ Len(history') = Len(history) + 1
              /\ caRet'.cells = history'[Len(history')]
       /\ (caPc = "idle" /\ caCall'.op = "evolveMultiple") =>
              /\ Len(history') = Len(history) + caCall'.steps
              /\ caRet'.rows = SubSeq(history', Len(history) + 1, Len(history'))]_vars

C10_Witness ==
    /\ Returned("evolveMultiple")
    /\ caCall.steps = 2
    /\ Len(history) >= 4
    /\ caRet.rows = SubSeq(history, Len(history) - 1, Len(history))
    /\ caRet.rows[1] # caRet.rows[2]

\* the row of History that the row argument of a call selects
SelectedRow == history[IF caCall.row = 0 - 1 THEN Len(history) ELSE caCall.row + 1]

\* the positions of the input that the selected row, repeated, marks with 1
KeptPositions ==
    {i \in 0..(Len(caCall.notes) - 1) : SelectedRow[(i % Len(SelectedRow)) + 1] = 1}

\* C16: for a valid row and notes and durations of equal length,
\* applyToSequence returns notes and durations of equal length, which are the
\* (note, duration) pairs at the positions i with row[i mod W] = 1, in input
\* order: a subsequence of the input, never longer than it.
C16_SequenceGatedByRow ==
    (Returned("applyToSequence") /\ RowValid(caCall.row)
     /\ Len(caCall.notes) = Len(caCall.durations)) =>
        LET kept == SortAscending(KeptPositions)
        IN  /\ Len(caRet.notes) = Len(kept)
            /\ Len(caRet.durations) = Len(kept)
            /\ Len(kept) <= Len(caCall.notes)
            /\ \A k \in 1..Len(kept) :
                  /\ caRet.notes[k] = caCall.notes[kept[k] + 1]
                  /\ caRet.durations[k] = caCall.durations[kept[k] + 1]

C16_Witness ==
    /\ Returned("applyToSequence")
    /\ size = 2
    /\ caCall.row = 0
    /\ history[1] = <<1, 0>>
    /\ caCall.notes = <<60, 62, 62>>
    /\ caCall.durations = <<1, 1, 2>>
    /\ caRet.notes = <<60, 62>>
    /\ caRet.durations = <<1, 2>>

ActiveCells(row) == Cardinality({j \in DOMAIN row : row[j] = 1})

\* p = floor(lo + (active / width) * (hi - lo)); no p when the width is 0
IsDensityPitch(p, active, width, lo, hi) ==
    /\ (p - lo) * width <= active * (hi - lo)
    /\ active * (hi - lo) < (p + 1 - lo) * width

\* C22: generatePitches(length, minPitch, maxPitch) with minPitch <= maxPitch
\* leaves History with max(previous length, length) rows and returns length
\* pitches, pitch i being floor(minPitch + (active cells of History row i / W)
\* * (maxPitch - minPitch)) and lying in minPitch..maxPitch; called again on
\* a History that is long enough, it computes them from the rows in place
\* and adds no row.
C22_PitchesFollowDensity ==
    /\ []((Returned("generatePitches") /\ caCall.lo <= caCall.hi) =>
             /\ Len(caRet.cells) = caCall.length
             /\ Len(history) >= caCall.length
             /\ \A i \in 1..caCall.length :
                   /\ IsDensityPitch(caRet.cells[i], ActiveCells(history[i]), size,
                                     caCall.lo, caCall.hi)
                   /\ caRet.cells[i] \in caCall.lo..caCall.hi)
    /\ [][(caPc = "idle" /\ caCall'.op = "generatePitches") =>
             /\ Len(history') = Max(Len(history), caCall'.length)
             /\ SubSeq(history', 1, Len(history)) = history]_vars

\* zeros except a single 1 at index floor(W/2), in a row of W cells
SeedRow(width) == [j \in 1..width |-> IF j - 1 = width \div 2 THEN 1 ELSE 0]

\* the rows of W cells a caller can supply
SuppliedRows(width) ==
    {s.cells : s \in {i \in InitialStates : i.given /\ Len(i.cells) = width}}

\* C23: for every width W >= 0, with or without a supplied initial row,
\* every row of History has exactly W cells, each 0 or 1, after construction
\* and after any number of evolve calls; the initial row is the supplied row
\* when that has W cells, else zeros with a single 1 at index floor(W/2).
C23_RowsHaveWidth ==
    /\ \A k \in DOMAIN history :
          /\ Len(history[k]) = size
          /\ \A j \in DOMAIN history[k] : history[k][j] \in {0, 1}
    /\ history[1] \in SuppliedRows(size) \cup {SeedRow(size)}

\* the row toDurations reads: the last one for -1, none for an invalid index
DurationRow == toRhythm(history, caCall.row)

\* C26: for a row of width W >= 4 and 0 < minDuration <= maxDuration, every
\* note (non-negative) value toDurations emits lies in minDuration..maxDuration,
\* wherever the active cells of the row are.
C26_NoteDurationsInRange ==
    (Returned("toDurations") /\ size >= 4 /\ 0 < caCall.lo /\ caCall.lo <= caCall.hi) =>
        \A k \in DOMAIN caRet.fractions :
            LET value == caRet.fractions[k]
            IN  (value.den > 0 /\ value.num >= 0) =>
                    /\ caCall.lo * value.den <= value.num
                    /\ value.num <= caCall.hi * value.den

\* the value is a negative number (NaN and the infinities have den = 0)
Negative(value) == value.den # 0 /\ value.num * value.den < 0

----------------------------------------------------------------------------
(* Claims about MarkovChain, checked under SpecMarkov *)

MkReturned(op) == mkPc = "done" /\ mkCall.op = op

AllSymbols == Symbols \cup Range(Scenario)

Contexts == [1..order -> AllSymbols]

\* the successors stored for context c; none when c is not a key
StoredSuccessors(c) ==
    IF JsonStringify(c) \in DOMAIN transitionTable
    THEN transitionTable[JsonStringify(c)] ELSE <<>>

\* how many times the accepted training sequences show x right after c
ObservedCount(c, x) ==
    SumSeq([k \in DOMAIN trained |->
              Cardinality({i \in 0..(Len(trained[k]) - order - 1) :
                              /\ \A j \in 1..order : trained[k][i + j] = c[j]
                              /\ trained[k][i + order + 1] = x})])

\* C1: once the StartingState pool is non-empty, generate(length) returns
\* exactly `length` symbols for every length >= 0, with or without a
\* startContext.
C1_GenerateExactLength ==
    (MkReturned("generate") /\ startingStates # <<>>) =>
        Len(mkRet.sequence) = mkCall.length

\* C4: in every sequence generate returns, for a model built by train calls
\* only, the symbol at each position p >= order is a stored successor of the
\* `order` symbols before it or, only when that context is not in the table,
\* the first symbol of a StartingState; the order-1 model trained on
\* [60,62,64,62,60] and started at [60] yields, for length 5, only the
\* adjacent pairs 60->62, 62->64, 62->60, 64->62.
C4_GenerateFollowsTable ==
    MkReturned("generate") =>
        LET out == mkRet.sequence
        IN  /\ \A p \in (order + 1)..Len(out) :
                  LET context == SubSeq(out, p - order, p - 1)
                  IN  IF JsonStringify(context) \in DOMAIN transitionTable
                      THEN out[p] \in Range(StoredSuccessors(context))
                      ELSE \E k \in DOMAIN startingStates :
                              out[p] = startingStates[k][1]
            /\ (order = 1 /\ trained = <<Scenario>> /\ mkCall.length = 5
                /\ mkCall.startState = [given |-> TRUE, state |-> <<60>>]) =>
                  /\ Len(out) = 5
                  /\ \A p \in 1..4 :
                        <<out[p], out[p + 1]>> \in
                            {<<60, 62>>, <<62, 64>>, <<62, 60>>, <<64, 62>>}

C4_Witness ==
    /\ MkReturned("generate")
    /\ order = 1
    /\ trained = <<Scenario>>
    /\ mkCall.length = 5
    /\ mkCall.startState = [given |-> TRUE, state |-> <<60>>]
    /\ mkRet.sequence = <<60, 62, 64, 62, 60>>

\* C5: after any sequence of train calls the successors stored for every
\* context c are, as a multiset, the symbols that follow an occurrence of c
\* in the accepted training sequences; a later train call never removes or
\* replaces successors recorded earlier.
C5_TrainAccumulates ==
    /\ [](/\ \A c \in Contexts : \A x \in AllSymbols :
                CountIn(StoredSuccessors(c), x) = ObservedCount(c, x)
          /\ DOMAIN transitionTable =
                {JsonStringify(c) : c \in {d \in Contexts :
                                             \E x \in AllSymbols : ObservedCount(d, x) > 0}})
    /\ [][\A state \in DOMAIN transitionTable :
             /\ state \in DOMAIN transitionTable'
             /\ Len(transitionTable'[state]) >= Len(transitionTable[state])
             /\ SubSeq(transitionTable'[state], 1, Len(transitionTable[state]))
                   = transitionTable[state]]_vars

C5_Witness ==
    /\ MkReturned("train")
    /\ order = 1
    /\ trained = << <<60, 62>>, <<60, 60, 62>> >>
    /\ transitionTable[JsonStringify(<<60>>)] = <<62, 60, 62>>

\* theme i (from 0) of the call, the start of its window, and the window
ThemeOf(i) == mkCall.themes.list[i + 1]

WindowStart(i) == i * (mkCall.length \div Len(mkCall.themes.list))

\* theme i carries notes and its window starts inside the base sequence
Placed(i) ==
    /\ ThemeOf(i).given
    /\ ThemeOf(i).notes # <<>>
    /\ WindowStart(i) < Len(mkRet.baseSequence)

Window(i) ==
    {p \in 0..(Len(mkRet.baseSequence) - 1) :
        /\ p >= WindowStart(i)
        /\ p < WindowStart(i) + Min(Len(ThemeOf(i).notes),
                                    Len(mkRet.baseSequence) - WindowStart(i))}

PlacedThemes == {i \in 0..(Len(mkCall.themes.list) - 1) : Placed(i)}

WithThemes == MkReturned("generateWithThemes") /\ mkCall.themes.list # <<>>

\* C15 as stated: generateWithThemes returns a sequence as long as the base
\* generation in which the window of every theme that carries notes and
\* starts inside the sequence holds that theme's notes in order, and every
\* position outside all the windows holds the base sequence's symbol.
C15_EveryThemeInItsWindow ==
    WithThemes =>
        /\ Len(mkRet.sequence) = Len(mkRet.baseSequence)
        /\ \A i \in PlacedThemes : \A p \in Window(i) :
              mkRet.sequence[p + 1] = ThemeOf(i).notes[p - WindowStart(i) + 1]
        /\ \A p \in 0..(Len(mkRet.baseSequence) - 1) :
              (\A i \in PlacedThemes : p \notin Window(i)) =>
                  mkRet.sequence[p + 1] = mkRet.baseSequence[p + 1]

\* C15 amended: where windows overlap the later theme wins: a position
\* inside some window holds the note of the last theme whose window covers
\* it; a window that no later window reaches into holds its theme's notes in
\* order; every position outside all the windows holds the base symbol.
C15_LastThemeInItsWindow ==
    /\ MkReturned("generateWithThemes") =>
          Len(mkRet.sequence) = Len(mkRet.baseSequence)
    /\ (MkReturned("generateWithThemes") /\ mkCall.themes.list = <<>>) =>
          mkRet.sequence = mkRet.baseSequence
    /\ WithThemes =>
          \A p \in 0..(Len(mkRet.baseSequence) - 1) :
              LET covering == {i \in PlacedThemes : p \in Window(i)}
              IN  IF covering = {}
                  THEN mkRet.sequence[p + 1] = mkRet.baseSequence[p + 1]
                  ELSE LET last == CHOOSE i \in covering : \A k \in covering : k <= i
                       IN  mkRet.sequence[p + 1] =
                              ThemeOf(last).notes[p - WindowStart(last) + 1]

C15_Witness ==
    /\ MkReturned("generateWithThemes")
    /\ mkCall.length = 4
    /\ mkCall.themes.list = <<[given |-> TRUE, notes |-> <<71, 72, 73>>],
                              [given |-> TRUE, notes |-> <<70>>]>>
    /\ Len(mkRet.baseSequence) = 4
    /\ mkRet.sequence = <<71, 72, 70, mkRet.baseSequence[4]>>

----------------------------------------------------------------------------
(* Claims about MarkovChain, checked under SpecMarkovChain *)

\* the probability (in thousandths) that the object P declares for the
\* transition from f to t; 0 - 1 when P declares none
Declared(P, f, t) ==
    IF \E i \in DOMAIN P : \E j \in DOMAIN P[i].value :
          /\ P[i].key = DecimalString(f)
          /\ P[i].value[j].key = DecimalString(t)
    THEN LET i == CHOOSE k \in DOMAIN P : P[k].key = DecimalString(f)
             j == CHOOSE k \in DOMAIN P[i].value : P[i].value[k].key = DecimalString(t)
         IN  P[i].value[j].value
    ELSE 0 - 1

\* the integer nearest to 100 * p, halves upwards, p given in thousandths
RoundHundred(p) == CHOOSE n \in 0..1000 : 10 * n - 5 <= p /\ p < 10 * n + 5

\* C11: on an order-1 model updateProbabilities(P) leaves a table in which
\* each declared to-state t of each declared from-state f occurs
\* round(100 * P[f][t]) times among f's successors when P[f][t] > 0 and not at
\* all otherwise, nothing recorded before remains, no context that P does not
\* declare is present, and the StartingState pool is as it was.
C11_UpdateReplacesTable ==
    /\ []((MkReturned("updateProbabilities") /\ order = 1) =>
            LET P == mkCall.newProbabilities
            IN  /\ \A f \in AllSymbols : \A t \in AllSymbols :
                      CountIn(StoredSuccessors(<<f>>), t) =
                          IF Declared(P, f, t) > 0 THEN RoundHundred(Declared(P, f, t))
                          ELSE 0
                /\ \A state \in DOMAIN transitionTable :
                      /\ \E i \in DOMAIN P : state = <<"[">> \o P[i].key \o <<"]">>
                      /\ Range(transitionTable[state]) \subseteq AllSymbols)
    /\ [][mkCall'.op = "updateProbabilities" => startingStates' = startingStates]_vars

C11_Witness ==
    /\ MkReturned("updateProbabilities")
    /\ order = 1
    /\ trained = << <<62, 60>> >>
    /\ startingStates = << <<62>> >>
    /\ Declared(mkCall.newProbabilities, 60, 60) = 4
    /\ Declared(mkCall.newProbabilities, 60, 62) = 15
    /\ Declared(mkCall.newProbabilities, 62, 60) = 0
    /\ DOMAIN transitionTable = {JsonStringify(<<60>>)}
    /\ transitionTable[JsonStringify(<<60>>)] = <<62, 62>>

\* the startContext of the call is one generate uses: given, of length `order`
StartContextUsable == mkCall.startState.given /\ Len(mkCall.startState.state) = order

\* C12: on a model with at least one context, generate(length, startContext)
\* with len(startContext) = order returns a sequence whose first `order`
\* symbols are startContext; with startContext absent or of another length
\* (and a non-empty pool) they are a member of the StartingState pool; after
\* train(S), generate(order, S[0:order]) returns exactly S[0:order].
C12_GenerateStartsFromSeed ==
    (MkReturned("generate") /\ DOMAIN transitionTable # {}) =>
        LET out == mkRet.sequence
        IN  /\ StartContextUsable =>
                  /\ Len(out) >= order
                  /\ SubSeq(out, 1, order) = mkCall.startState.state
            /\ (~StartContextUsable /\ startingStates # <<>>) =>
                  /\ Len(out) >= order
                  /\ \E k \in DOMAIN startingStates :
                        SubSeq(out, 1, order) = startingStates[k]
            /\ \A k \in DOMAIN trained :
                  (mkCall.length = order /\ mkCall.startState.given
                   /\ mkCall.startState.state = SubSeq(trained[k], 1, order))
                      => out = SubSeq(trained[k], 1, order)

C12_Witness ==
    /\ MkReturned("generate")
    /\ order = 2
    /\ trained = << <<60, 62, 60>> >>
    /\ mkCall.length = 2
    /\ mkCall.startState = [given |-> TRUE, state |-> <<60, 62>>]
    /\ mkRet.sequence = <<60, 62>>

\* the current context of the generation loop is a key of the table
ContextInTable ==
    JsonStringify(Slice(mkRet.sequence, Len(mkRet.sequence) - order, Len(mkRet.sequence)))
        \in DOMAIN transitionTable

\* C13: generate terminates: each step of its loop appends exactly one symbol
\* to a sequence shorter than `length`, or stops leaving the sequence as it
\* is; with a non-empty StartingState pool it stops only once `length`
\* symbols are present; with the context absent from the table and the pool
\* empty it stops and returns what it has, the seed at least.
C13_GenerateTerminates ==
    /\ [][mkPc = "walk" =>
            \/ /\ mkPc' = "walk"
               /\ Len(mkRet.sequence) < mkCall.length
               /\ Len(mkRet'.sequence) = Len(mkRet.sequence) + 1
               /\ SubSeq(mkRet'.sequence, 1, Len(mkRet.sequence)) = mkRet.sequence
            \/ /\ mkPc' = "done"
               /\ mkRet' = mkRet]_vars
    /\ [][(mkPc = "walk" /\ mkPc' = "done" /\ startingStates # <<>>) =>
            Len(mkRet.sequence) >= mkCall.length]_vars
    /\ [][(mkPc = "walk" /\ Len(mkRet.sequence) < mkCall.length
           /\ ~ContextInTable /\ startingStates = <<>>) =>
            /\ mkPc' = "done"
            /\ mkRet' = mkRet
            /\ Len(mkRet.sequence) >= order]_vars
    /\ (mkPc = "walk") ~> (mkPc = "done")

C13_Witness ==
    /\ MkReturned("generate")
    /\ order = 1
    /\ startingStates = <<>>
    /\ mkCall.length = 5
    /\ mkRet.sequence = <<60, 62>>
    /\ DOMAIN transitionTable = {JsonStringify(<<60>>)}

\* the symbols that are a from-state of the table, or a successor in it
FromStates == {f \in AllSymbols : JsonStringify(<<f>>) \in DOMAIN transitionTable}

Successors == UNION {Range(transitionTable[state]) : state \in DOMAIN transitionTable}

\* C17: on an order-1 model getProbabilityMatrix returns the symbols that
\* occur as a from-state or as a successor, in ascending order, and a matrix
\* whose entry [f][t] is the number of copies of t among f's successors
\* divided by the number of f's successors, each such row summing to 1; the
\* row of a state with no successor is all zero.
C17_MatrixRowsAreFrequencies ==
    (MkReturned("getProbabilityMatrix") /\ order = 1) =>
        LET states == mkRet.states
            matrix == mkRet.matrix
        IN  /\ mkRet.value = "object"
            /\ Range(states) = FromStates \cup Successors
            /\ \A i \in DOMAIN states : \A j \in DOMAIN states :
                  i < j => states[i] < states[j]
            /\ DOMAIN matrix = DOMAIN states
            /\ \A i \in DOMAIN states :
                  LET successors == StoredSuccessors(<<states[i]>>)
                  IN  /\ DOMAIN matrix[i] = DOMAIN states
                      /\ IF successors # <<>>
                         THEN /\ \A j \in DOMAIN states :
                                    /\ matrix[i][j].den = Len(successors)
                                    /\ matrix[i][j].num = CountIn(successors, states[j])
                              /\ SumSeq([j \in DOMAIN states |-> matrix[i][j].num])
                                    = Len(successors)
                         ELSE \A j \in DOMAIN states :
                                 matrix[i][j].num = 0 /\ matrix[i][j].den # 0

C17_Witness ==
    /\ MkReturned("getProbabilityMatrix")
    /\ order = 1
    /\ trained = << <<60, 60, 62>> >>
    /\ mkRet.states = <<60, 62>>
    /\ mkRet.matrix = << <<[num |-> 1, den |-> 2], [num |-> 1, den |-> 2]>>,
                         <<[num |-> 0, den |-> 1], [num |-> 0, den |-> 1]>> >>

\* a step that is a call of `op` on the idle instance
Calls(op) == mkPc = "idle" /\ mkPc' # "idle" /\ mkCall'.op = op

\* C19: train with a sequence no longer than the order leaves the table and
\* the pool of starting states as they were and returns the instance.
C19_ShortSequenceIsIgnored ==
    [][(Calls("train") /\ Len(mkCall'.sequence) <= order) =>
          /\ transitionTable' = transitionTable
          /\ startingStates' = startingStates
          /\ mkPc' = "done"
          /\ mkRet'.value = "this"]_vars

C19_Witness ==
    /\ MkReturned("train")
    /\ Len(mkCall.sequence) = order
    /\ mkRet.value = "this"
    /\ DOMAIN transitionTable # {}
    /\ startingStates # <<>>
    /\ Len(startingStates) = Len(trained)

\* generate is called with no startState of the length of the order
NoStartContext == ~(mkCall.startState.given /\ Len(mkCall.startState.state) = order)

\* C20: generate on a model whose table holds no context returns the empty
\* sequence, and so does generate on a model with contexts in the table, no
\* starting state in the pool and no startState of the length of the order;
\* the call leaves the table and the pool unchanged.
C20_GenerateWithoutSeedIsEmpty ==
    /\ [](MkReturned("generate") =>
             /\ DOMAIN transitionTable = {} =>
                   mkRet.value = "array" /\ mkRet.sequence = <<>>
             /\ (DOMAIN transitionTable # {} /\ startingStates = <<>> /\ NoStartContext) =>
                   mkRet.value = "array" /\ mkRet.sequence = <<>>)
    /\ [][(mkCall'.op = "generate" /\ mkPc' # "idle") =>
             /\ transitionTable' = transitionTable
             /\ startingStates' = startingStates]_vars

\* both cases: an emptied table with a starting state left in the pool, and
\* an edited table on a model that was never trained
C20_Witness ==
    /\ MkReturned("generate")
    /\ mkRet.sequence = <<>>
    /\ mkCall.length > 0
    /\ \/ DOMAIN transitionTable = {} /\ startingStates # <<>>
       \/ DOMAIN transitionTable # {} /\ startingStates = <<>> /\ NoStartContext
                                      /\ mkCall.startState.given

\* the symbols of the accepted training sequences
TrainedSymbols == UNION {Range(trained[k]) : k \in DOMAIN trained}

\* C25: on an order-1 model, after any train and updateProbabilities calls,
\* every element of a sequence generate returns is a symbol of an accepted
\* training sequence, of the supplied startState, or a to-state handed to
\* updateProbabilities (one of Symbols); it is never undefined.
C25_GeneratedSymbolsAreKnown ==
    (MkReturned("generate") /\ order = 1) =>
        \A i \in DOMAIN mkRet.sequence :
            /\ mkRet.sequence[i] # Undefined
            /\ mkRet.sequence[i] \in TrainedSymbols \cup Range(mkCall.startState.state)
                                        \cup Symbols

----------------------------------------------------------------------------
(* Claims about LSystem, checked under SpecLSystem *)

LsReturned(op) == lsCall.op = op

\* C6: for any non-empty stored derivation and any input sequence,
\* applyToMusic returns a sequence of exactly the input's length.
C6_ApplyKeepsLength ==
    (LsReturned("applyToMusic") /\ result # <<>>) =>
        Len(lsRet.notes) = Len(lsCall.sequence)

C6_Witness ==
    /\ LsReturned("applyToMusic")
    /\ Len(result) = 3
    /\ Len(lsCall.sequence) = 4
    /\ Len(lsRet.notes) = 4

\* the simultaneous rewriting of the claim: a symbol with a rule in the rule
\* map becomes the rule's replacement, whatever it is; any other is kept
RewriteByRuleMap(ruleMap, current) ==
    Flatten([i \in 1..Len(current) |->
               IF current[i] \in DOMAIN ruleMap THEN ruleMap[current[i]]
               ELSE <<current[i]>>])

RECURSIVE DeriveByRuleMap(_, _, _)
DeriveByRuleMap(ruleMap, current, iterations) ==
    IF iterations = 0 THEN current
    ELSE DeriveByRuleMap(ruleMap, RewriteByRuleMap(ruleMap, current), iterations - 1)

\* C7: generate(iterations) applies `iterations` times the rewriting that
\* replaces every symbol having a rule by the rule's replacement string,
\* whatever that string is, and keeps every other symbol; axiom "A" with
\* rules {A->AB, B->A} gives "ABA" after 2 iterations.
C7_GenerateRewritesEveryRule ==
    LsReturned("generate") =>
        /\ lsRet.string = DeriveByRuleMap(rules, axiom, lsCall.iterations)
        /\ result = lsRet.string
        /\ (axiom = <<"A">> /\ lsCall.iterations = 2
            /\ rules = [symbol \in {"A", "B"} |->
                           IF symbol = "A" THEN <<"A", "B">> ELSE <<"A">>])
              => lsRet.string = <<"A", "B", "A">>

\* the least s with s * m >= n: ceil(n / m)
CeilDiv(n, m) == CHOOSE s \in 0..n : s * m >= n /\ (s = 0 \/ (s - 1) * m < n)

\* C14: with segmentSize = ceil(len(sequence) / len(derivation)), the output
\* of applyToMusic at every position j is T(sequence[j]), T being the
\* transform the map in use has for derivation symbol floor(j / segmentSize),
\* and sequence[j] itself when the map has none; the derivation symbols
\* whose window would start at or past the end of the sequence affect nothing.
C14_ApplyBySegment ==
    (LsReturned("applyToMusic") /\ result # <<>>) =>
        LET sequence    == lsCall.sequence
            transforms  == Transforms(lsCall.transformations)
            segmentSize == CeilDiv(Len(sequence), Len(result))
        IN  /\ DOMAIN lsRet.notes = DOMAIN sequence
            /\ \A j \in 0..(Len(sequence) - 1) :
                  LET symbol == result[(j \div segmentSize) + 1]
                  IN  lsRet.notes[j + 1] =
                         IF symbol \in DOMAIN transforms
                         THEN ApplyTransform(transforms[symbol], sequence[j + 1])
                         ELSE sequence[j + 1]

C14_Witness ==
    /\ LsReturned("applyToMusic")
    /\ result = <<"A", "B", "A">>
    /\ lsCall.sequence = <<60, 60, 60, 60>>
    /\ lsCall.transformations = "absent"
    /\ lsRet.notes = <<61, 61, 59, 59>>

\* C18: the string generate(n) returns and stores depends on the axiom, the
\* rules and n only: it is the string a fresh instance with the same axiom
\* and rules returns, whatever generate and applyToMusic calls came before on
\* this instance, and it replaces the derivation stored before the call;
\* applyToMusic leaves the stored derivation alone.
C18_GenerateIsDeterministic ==
    /\ [](LsReturned("generate") =>
            /\ lsRet.string = Derive(rules, axiom, lsCall.iterations)
            /\ result = lsRet.string)
    /\ [][lsCall'.op = "applyToMusic" => result' = result]_vars
    /\ [][\A other \in 0..MaxIterations :
             (lsCall'.op = "generate" /\ lsCall'.iterations = other) =>
                 result' = Derive(rules', axiom', other)]_vars

C18_Witness ==
    /\ LsReturned("generate")
    /\ lsCall.iterations = 1
    /\ priorResult # axiom
    /\ priorResult # result
    /\ result # axiom
    /\ lsRet.string = result

\* every rule for a symbol of the string has a replacement of one symbol
RulesKeepLength(ruleMap, current) ==
    \A i \in DOMAIN current :
        current[i] \in DOMAIN ruleMap => Len(ruleMap[current[i]]) = 1

C28_DefaultTransformsStayInRange ==
    (LsReturned("applyToMusic") /\ lsCall.transformations = "absent"
       /\ \A j \in DOMAIN lsCall.sequence : lsCall.sequence[j] \in 0..127) =>
        \A j \in DOMAIN lsRet.notes : lsRet.notes[j] \in 0..127

----------------------------------------------------------------------------
(* Claims about LSystem.parseRules, checked under SpecParseRules *)

\* the entries of a rule string: what stands between its separators and ends
EntriesOf(str) ==
    LET bounds == SortAscending({0, Len(str) + 1}
                                \cup {i \in 1..Len(str) : str[i] \in {",", ";"}})
    IN  [k \in 1..(Len(bounds) - 1) |-> SubSeq(str, bounds[k] + 1, bounds[k + 1] - 1)]

ArrowsIn(entry) == {i \in 1..(Len(entry) - 1) : entry[i] = "-" /\ entry[i + 1] = ">"}

\* how an entry reads: whether it is written x->w with one character x,
\* blanks allowed next to the arrow, and then its x and its w
ReadEntry(entry) ==
    LET arrows == ArrowsIn(entry)
        arrow  == CHOOSE i \in arrows : TRUE
    IN  IF /\ Cardinality(arrows) = 1
           /\ arrow >= 2
           /\ entry[1] # " "
           /\ \A i \in 2..(arrow - 1) : entry[i] = " "
        THEN [written |-> TRUE, left |-> entry[1],
              right |-> Trim(SubSeq(entry, arrow + 2, Len(entry)))]
        ELSE [written |-> FALSE, left |-> "", right |-> <<>>]

\* the entries of the string parseRules was called with, as they read, both
\* arrows written "->" and the blanks around the string dropped
WrittenRules ==
    LET entries == EntriesOf(Trim(ReplaceArrows(lsCall.rulesStr)))
    IN  [k \in DOMAIN entries |-> ReadEntry(entries[k])]

\* C21 as stated: every key of the rule map parseRules returns is one
\* character; the map holds x->w for each entry written x->w with a one
\* character left-hand side, and nothing for any other entry.
C21_EveryWrittenRuleHeld ==
    lsCall.op = "parseRules" =>
        LET read == WrittenRules
        IN  /\ \A key \in DOMAIN lsRet.rules :
                  /\ key # ""
                  /\ \E k \in DOMAIN read : read[k].written /\ read[k].left = key
            /\ \A k \in DOMAIN read :
                  read[k].written =>
                      /\ read[k].left \in DOMAIN lsRet.rules
                      /\ lsRet.rules[read[k].left] = read[k].right

\* C21 amended: of the entries written for one symbol the last one is held.
C21_LastWrittenRuleHeld ==
    lsCall.op = "parseRules" =>
        LET read == WrittenRules
        IN  /\ \A key \in DOMAIN lsRet.rules :
                  /\ key # ""
                  /\ \E k \in DOMAIN read : read[k].written /\ read[k].left = key
            /\ \A k \in DOMAIN read :
                  read[k].written =>
                      /\ read[k].left \in DOMAIN lsRet.rules
                      /\ (\A later \in DOMAIN read :
                             (read[later].written /\ read[later].left = read[k].left)
                                 => later <= k)
                            => lsRet.rules[read[k].left] = read[k].right

\* "A→,A->B": a rule replaced by a later one, in the two arrow notations
C21_Witness ==
    /\ lsCall.op = "parseRules"
    /\ lsCall.rulesStr = <<"A", "→", ",", "A", "-", ">", "B">>
    /\ lsRet.rules = [symbol \in {"A"} |-> <<"B">>]

----------------------------------------------------------------------------
(* Claims about SheetMusicAnalyzer, checked under SpecSheetMusic *)

\* nothing is left to happen: no task in flight, the flag down, no page pending
ViewerAtRest ==
    /\ pdfDoc
    /\ InFlight(renders) = {}
    /\ ~pageRendering
    /\ pageNumPending = 0

\* C29: under any interleaving of changePage and zoom calls with the
\* completions (success or failure) of page renders, once no render is in
\* flight and no page is pending, the page last drawn into the viewer is the
\* current pageNum.
C29_ViewerShowsCurrentPage ==
    (ViewerAtRest /\ canvas # {}) => canvas = {pageNum}

----------------------------------------------------------------------------
(* Claims about AudioAnalyzer, checked under SpecAudio *)

\* C30: after any sequence of file loads and analyzeAudio calls, the peaks,
\* beats and frequencies analyzeAudio returns are those computed from the
\* currently loaded buffer, never those memoized for an earlier file.
C30_AnalysisIsOfLoadedBuffer ==
    analysis.value = "object" =>
        /\ analysis.peaks = audioBuffer
        /\ analysis.beats = audioBuffer
        /\ analysis.frequencies = audioBuffer

====
